---- MODULE Spec2Model ----
(***************************************************************************)
(* A model of pubmed_pharma_papers: the affiliation classifier            *)
(* (filter.py), the PubMed gateway (api_client.py), the command-line      *)
(* pipeline (cli.py), the parser (parser.py) and the exporter             *)
(* (exporter.py).                                                          *)
(*                                                                         *)
(* Python strings are sequences of one-character strings, so that lower(), *)
(* the substring test `in`, split(), strip() and endswith() are computed   *)
(* character by character as the interpreter computes them.  Python's None *)
(* is the one-element tuple None, which no character sequence equals.      *)
(***************************************************************************)
EXTENDS Integers, Sequences, FiniteSets, TLC

None == <<"None">>

(***************************************************************************)
(* str operations                                                          *)
(***************************************************************************)
Whitespace == {" ", "\t", "\n", "\r"}

\* the upper-case letters and their lower-case forms
LowerCaseOf ==
    ("A" :> "a") @@ ("B" :> "b") @@ ("C" :> "c") @@ ("D" :> "d") @@
    ("E" :> "e") @@ ("F" :> "f") @@ ("G" :> "g") @@ ("H" :> "h") @@
    ("I" :> "i") @@ ("J" :> "j") @@ ("K" :> "k") @@ ("L" :> "l") @@
    ("M" :> "m") @@ ("N" :> "n") @@ ("O" :> "o") @@ ("P" :> "p") @@
    ("Q" :> "q") @@ ("R" :> "r") @@ ("S" :> "s") @@ ("T" :> "t") @@
    ("U" :> "u") @@ ("V" :> "v") @@ ("W" :> "w") @@ ("X" :> "x") @@
    ("Y" :> "y") @@ ("Z" :> "z")

\* str.lower() on one character
LowerChar(c) == IF c \in DOMAIN LowerCaseOf THEN LowerCaseOf[c] ELSE c

\* s.lower()
Lower(s) == [i \in 1..Len(s) |-> LowerChar(s[i])]

\* k in s  (substring test)
Contains(s, k) ==
    \E i \in 0..(Len(s) - Len(k)) : \A j \in 1..Len(k) : s[i + j] = k[j]

\* s.endswith(k)
EndsWith(s, k) ==
    /\ Len(k) <= Len(s)
    /\ \A j \in 1..Len(k) : s[Len(s) - Len(k) + j] = k[j]

\* position of the first occurrence of character c in s, 0 when absent
IndexOf(s, c) ==
    IF \E i \in 1..Len(s) : s[i] = c
    THEN CHOOSE i \in 1..Len(s) : s[i] = c /\ \A j \in 1..(i - 1) : s[j] # c
    ELSE 0

\* s.split(c)[0]
SplitFirst(s, c) ==
    IF IndexOf(s, c) = 0 THEN s ELSE SubSeq(s, 1, IndexOf(s, c) - 1)

\* s.split(c)[1], for s that contains c
SplitSecond(s, c) ==
    LET rest == SubSeq(s, IndexOf(s, c) + 1, Len(s))
    IN  SplitFirst(rest, c)

\* s.strip()
Strip(s) ==
    IF \A i \in 1..Len(s) : s[i] \in Whitespace
    THEN << >>
    ELSE LET a == CHOOSE i \in 1..Len(s) :
                      s[i] \notin Whitespace /\ \A j \in 1..(i - 1) : s[j] \in Whitespace
             b == CHOOSE i \in 1..Len(s) :
                      s[i] \notin Whitespace /\ \A j \in (i + 1)..Len(s) : s[j] \in Whitespace
         IN  SubSeq(s, a, b)

\* s[:-n] for 0 < n <= len(s)
DropLast(s, n) == SubSeq(s, 1, Len(s) - n)

\* any(k in s for k in ks), ks a list
AnyIn(ks, s) == \E i \in 1..Len(ks) : Contains(s, ks[i])

(***************************************************************************)
(* CompanyFilter.__init__: the keyword tables                              *)
(***************************************************************************)
pharma_keywords ==
    { <<"p","f","i","z","e","r">>,
      <<"n","o","v","a","r","t","i","s">>,
      <<"r","o","c","h","e">>,
      <<"m","e","r","c","k">>,
      <<"j","o","h","n","s","o","n"," ","&"," ","j","o","h","n","s","o","n">>,
      <<"j","&","j">>,
      <<"b","r","i","s","t","o","l"," ","m","y","e","r","s"," ","s","q","u","i","b","b">>,
      <<"b","m","s">>,
      <<"a","b","b","v","i","e">>,
      <<"a","m","g","e","n">>,
      <<"g","i","l","e","a","d">>,
      <<"b","i","o","g","e","n">>,
      <<"r","e","g","e","n","e","r","o","n">>,
      <<"v","e","r","t","e","x">>,
      <<"m","o","d","e","r","n","a">>,
      <<"b","i","o","n","t","e","c","h">>,
      <<"g","s","k">>,
      <<"g","l","a","x","o","s","m","i","t","h","k","l","i","n","e">>,
      <<"s","a","n","o","f","i">>,
      <<"t","a","k","e","d","a">>,
      <<"a","s","t","r","a","z","e","n","e","c","a">>,
      <<"e","l","i"," ","l","i","l","l","y">>,
      <<"l","i","l","l","y">>,
      <<"b","o","e","h","r","i","n","g","e","r"," ","i","n","g","e","l","h","e","i","m">>,
      <<"c","e","l","g","e","n","e">>,
      <<"a","l","e","x","i","o","n">>,
      <<"i","n","c","y","t","e">>,
      <<"i","l","l","u","m","i","n","a">>,
      <<"g","e","n","e","n","t","e","c","h">>,
      <<"i","m","m","u","n","o","g","e","n">>,
      <<"s","e","a","g","e","n">>,
      <<"s","e","a","t","t","l","e"," ","g","e","n","e","t","i","c","s">>,
      <<"g","i","l","e","a","d"," ","s","c","i","e","n","c","e","s">>,
      <<"b","i","o","g","e","n"," ","i","d","e","c">>,
      <<"p","h","a","r","m","a","c","e","u","t","i","c","a","l","s">>,
      <<"p","h","a","r","m","a">>,
      <<"b","i","o","t","e","c","h">>,
      <<"b","i","o","t","e","c","h","n","o","l","o","g","y">>,
      <<"t","h","e","r","a","p","e","u","t","i","c">>,
      <<"t","h","e","r","a","p","e","u","t","i","c","s">>,
      <<"d","r","u","g"," ","d","e","v","e","l","o","p","m","e","n","t">>,
      <<"c","l","i","n","i","c","a","l"," ","r","e","s","e","a","r","c","h">>,
      <<"i","n","c",".">>,
      <<"c","o","r","p",".">>,
      <<"c","o","r","p","o","r","a","t","i","o","n">>,
      <<"l","t","d",".">>,
      <<"l","i","m","i","t","e","d">>,
      <<"c","o","m","p","a","n","y">>,
      <<"c","o",".">> }

\* the list literal of is_academic_affiliation
academic_indicators ==
    << <<".","e","d","u">>,
       <<"u","n","i","v","e","r","s","i","t","y">>,
       <<"c","o","l","l","e","g","e">>,
       <<"s","c","h","o","o","l"," ","o","f">>,
       <<"m","e","d","i","c","a","l"," ","s","c","h","o","o","l">>,
       <<"i","n","s","t","i","t","u","t","e"," ","o","f">>,
       <<"d","e","p","a","r","t","m","e","n","t"," ","o","f">>,
       <<"f","a","c","u","l","t","y"," ","o","f">>,
       <<"a","c","a","d","e","m","i","c">> >>

is_academic_affiliation(affiliation) ==
    LET affiliation_lower == Lower(affiliation)
    IN  AnyIn(academic_indicators, affiliation_lower)

\* the list literals of is_company_affiliation
corporate_indicators ==
    << <<"i","n","c",".">>,
       <<"c","o","r","p",".">>,
       <<"l","t","d",".">>,
       <<"l","i","m","i","t","e","d">>,
       <<"l","l","c">>,
       <<"g","m","b","h">> >>

business_keywords ==
    << <<"p","h","a","r","m","a","c","e","u","t","i","c","a","l">>,
       <<"b","i","o","t","e","c","h">>,
       <<"t","h","e","r","a","p","e","u","t","i","c">>,
       <<"d","r","u","g">>,
       <<"c","l","i","n","i","c","a","l">> >>

\* is_company_affiliation with the keyword loop moved before the academic test
is_company_affiliation_keywords_first(affiliation) ==
    LET affiliation_lower == Lower(affiliation)
    IN  IF affiliation = << >> THEN FALSE
        ELSE IF \E keyword \in pharma_keywords : Contains(affiliation_lower, keyword) THEN TRUE
        ELSE IF is_academic_affiliation(affiliation) THEN FALSE
        ELSE IF AnyIn(corporate_indicators, affiliation_lower)
                /\ AnyIn(business_keywords, affiliation_lower) THEN TRUE
        ELSE FALSE

\* is_company_affiliation without the business-keyword test of its last rule
is_company_affiliation_suffix_only(affiliation) ==
    LET affiliation_lower == Lower(affiliation)
    IN  IF affiliation = << >> THEN FALSE
        ELSE IF is_academic_affiliation(affiliation) THEN FALSE
        ELSE IF \E keyword \in pharma_keywords : Contains(affiliation_lower, keyword) THEN TRUE
        ELSE IF AnyIn(corporate_indicators, affiliation_lower) THEN TRUE
        ELSE FALSE

is_company_affiliation(affiliation) ==
    LET affiliation_lower == Lower(affiliation)
    IN  IF affiliation = << >> THEN FALSE
        ELSE IF is_academic_affiliation(affiliation) THEN FALSE
        ELSE IF \E keyword \in pharma_keywords : Contains(affiliation_lower, keyword) THEN TRUE
        ELSE IF AnyIn(corporate_indicators, affiliation_lower)
                /\ AnyIn(business_keywords, affiliation_lower) THEN TRUE
        ELSE FALSE

\* the list literal of extract_company_name
suffixes ==
    << <<" ","I","n","c">>,
       <<" ","C","o","r","p">>,
       <<" ","L","t","d">>,
       <<" ","L","i","m","i","t","e","d">>,
       <<" ","L","L","C">>,
       <<" ","G","m","b","H">> >>

\* the loop `for suffix in suffixes`, from the i-th suffix on
RECURSIVE CleanSuffixes(_, _)
CleanSuffixes(company_name, i) ==
    IF i > Len(suffixes) THEN company_name
    ELSE IF EndsWith(company_name, suffixes[i])
         THEN CleanSuffixes(Strip(DropLast(company_name, Len(suffixes[i]))), i + 1)
         ELSE CleanSuffixes(company_name, i + 1)

\* extract_company_name without the split at the first period
extract_company_name_no_period_split(affiliation) ==
    IF ~is_company_affiliation(affiliation) THEN None
    ELSE LET first   == Strip(SplitFirst(affiliation, ","))
             cleaned == CleanSuffixes(first, 1)
         IN  IF cleaned # << >> THEN cleaned ELSE None

extract_company_name(affiliation) ==
    IF ~is_company_affiliation(affiliation) THEN None
    ELSE LET first   == Strip(SplitFirst(affiliation, ","))
             second  == Strip(SplitFirst(first, "."))
             cleaned == CleanSuffixes(second, 1)
         IN  IF cleaned # << >> THEN cleaned ELSE None

corporate_domains ==
    { <<"p","f","i","z","e","r",".","c","o","m">>,
      <<"n","o","v","a","r","t","i","s",".","c","o","m">>,
      <<"r","o","c","h","e",".","c","o","m">>,
      <<"m","e","r","c","k",".","c","o","m">>,
      <<"j","n","j",".","c","o","m">>,
      <<"b","m","s",".","c","o","m">>,
      <<"a","b","b","v","i","e",".","c","o","m">>,
      <<"a","m","g","e","n",".","c","o","m">>,
      <<"g","i","l","e","a","d",".","c","o","m">>,
      <<"b","i","o","g","e","n",".","c","o","m">>,
      <<"r","e","g","e","n","e","r","o","n",".","c","o","m">>,
      <<"v","r","t","x",".","c","o","m">>,
      <<"m","o","d","e","r","n","a","t","x",".","c","o","m">>,
      <<"b","i","o","n","t","e","c","h",".","d","e">>,
      <<"g","s","k",".","c","o","m">>,
      <<"s","a","n","o","f","i",".","c","o","m">> }

\* the list literal of is_corporate_email
email_academic ==
    << <<"e","d","u">>,
       <<"a","c",".">>,
       <<"u","n","i","v">> >>

extract_domain_from_email(email) ==
    IF Contains(email, <<"@">>) THEN Lower(SplitSecond(email, "@")) ELSE None

is_corporate_email(email) ==
    LET domain == extract_domain_from_email(email)
    IN  IF domain = None \/ domain = << >> THEN FALSE
        ELSE IF domain \in corporate_domains THEN TRUE
        ELSE IF EndsWith(domain, <<".","c","o","m">>) /\ ~AnyIn(email_academic, domain) THEN TRUE
        ELSE FALSE

(***************************************************************************)
(* CompanyFilter.filter_papers_with_company_authors                        *)
(*                                                                         *)
(* A paper is [pmid, authors]; an author is [first_name, last_name,        *)
(* affiliation, email].  An Author object is named by its position in      *)
(* paper.authors and a Paper object by its position in papers, so that two *)
(* objects with equal fields stay two objects.  company_authors holds      *)
(* author positions, filtered_papers paper positions.                      *)
(***************************************************************************)
\* bool(x) of an Optional[str]
Truthy(x) == x # None /\ x # << >>

\* name in company_affiliations
InList(x, list) == \E k \in 1..Len(list) : list[k] = x

\* author in company_authors: list membership compares by `is`, then by ==,
\* and == of the dataclass Author compares the four fields
author_in_by_identity(authors, i, company_authors) ==
    \E k \in 1..Len(company_authors) : company_authors[k] = i

author_in(authors, i, company_authors) ==
    \E k \in 1..Len(company_authors) :
        company_authors[k] = i \/ authors[company_authors[k]] = authors[i]

\* the body of `for author in paper.authors` without the test
\* `company_name not in company_affiliations`
author_step_no_name_dedup(authors, i, acc) ==
    LET author == authors[i]
        after_affiliation ==
            IF is_company_affiliation(author.affiliation)
            THEN LET company_name == extract_company_name(author.affiliation)
                 IN  [company_authors |-> Append(acc.company_authors, i),
                      company_affiliations |->
                          IF Truthy(company_name)
                          THEN Append(acc.company_affiliations, company_name)
                          ELSE acc.company_affiliations]
            ELSE acc
    IN  IF Truthy(author.email) /\ is_corporate_email(author.email)
        THEN IF ~author_in(authors, i, after_affiliation.company_authors)
             THEN [after_affiliation EXCEPT !.company_authors = Append(@, i)]
             ELSE after_affiliation
        ELSE after_affiliation

\* the body of `for author in paper.authors`, for the author at position i
author_step(authors, i, acc) ==
    LET author == authors[i]
        after_affiliation ==
            IF is_company_affiliation(author.affiliation)
            THEN LET company_name == extract_company_name(author.affiliation)
                 IN  [company_authors |-> Append(acc.company_authors, i),
                      company_affiliations |->
                          IF Truthy(company_name)
                             /\ ~InList(company_name, acc.company_affiliations)
                          THEN Append(acc.company_affiliations, company_name)
                          ELSE acc.company_affiliations]
            ELSE acc
    IN  IF Truthy(author.email) /\ is_corporate_email(author.email)
        THEN IF ~author_in(authors, i, after_affiliation.company_authors)
             THEN [after_affiliation EXCEPT !.company_authors = Append(@, i)]
             ELSE after_affiliation
        ELSE after_affiliation

RECURSIVE AuthorLoop(_, _, _)
AuthorLoop(authors, i, acc) ==
    IF i > Len(authors) THEN acc
    ELSE AuthorLoop(authors, i + 1, author_step(authors, i, acc))

\* the body of `for paper in papers` without the test `if company_authors`
paper_step_keep_all(papers, i, out) ==
    LET found == AuthorLoop(papers[i].authors, 1,
                            [company_authors |-> << >>, company_affiliations |-> << >>])
    IN  [filtered_papers |-> Append(out.filtered_papers, i),
         annotations |-> [out.annotations EXCEPT ![i] = <<found>>]]

\* the body of `for paper in papers`, for the paper at position i;
\* annotations[i] is << >> while paper i has no company_authors attribute
paper_step(papers, i, out) ==
    LET found == AuthorLoop(papers[i].authors, 1,
                            [company_authors |-> << >>, company_affiliations |-> << >>])
    IN  IF found.company_authors # << >>
        THEN [filtered_papers |-> Append(out.filtered_papers, i),
              annotations |-> [out.annotations EXCEPT ![i] = <<found>>]]
        ELSE out

RECURSIVE PaperLoop(_, _, _)
PaperLoop(papers, i, out) ==
    IF i > Len(papers) THEN out
    ELSE PaperLoop(papers, i + 1, paper_step(papers, i, out))

filter_papers_with_company_authors(papers) ==
    PaperLoop(papers, 1,
              [filtered_papers |-> << >>,
               annotations |-> [i \in 1..Len(papers) |-> << >>]])

(***************************************************************************)
(* Inputs                                                                  *)
(***************************************************************************)
\* parts concatenated into one affiliation string
MaxAffiliationParts == 3
\* parts concatenated into one email string
MaxEmailParts == 4
\* papers of one batch, and authors of one batch in all
MaxPapers == 2
MaxAuthors == 3
\* Id elements of one search response, identifiers of one fetch call
MaxIds == 2
\* PubmedArticle records of one fetch response
MaxArticles == 2
\* calls of the client a test makes
MaxCalls == 2

\* every concatenation of at most n of the parts
RECURSIVE Concats(_, _)
Concats(parts, n) ==
    IF n = 0 THEN { << >> }
    ELSE LET shorter == Concats(parts, n - 1)
         IN  shorter \cup { s \o p : s \in shorter, p \in parts }

AffiliationParts ==
    { <<"P","f","i","z","e","r">>,
      <<"A","c","m","e">>,
      <<" ","I","n","c">>,
      <<" ","C","o","r","p">>,
      <<" ","L","L","C">>,
      <<" ","D","r","u","g">>,
      <<" ","U","N","I","V","E","R","S","I","T","Y">>,
      <<" ","C","o","l","l","e","g","e">>,
      <<".","e","d","u">>,
      <<",">>,
      <<".">>,
      <<" ">> }

TestAffiliations ==
    { <<"P","f","i","z","e","r"," ","I","n","c",".",","," ","N","e","w"," ","Y","o","r","k",","," ","N","Y">>,
      <<"N","o","v","a","r","t","i","s"," ","P","h","a","r","m","a","c","e","u","t","i","c","a","l","s"," ","C","o","r","p","o","r","a","t","i","o","n">>,
      <<"R","o","c","h","e"," ","G","e","n","e","n","t","e","c","h",","," ","S","o","u","t","h"," ","S","a","n"," ","F","r","a","n","c","i","s","c","o">>,
      <<"B","r","i","s","t","o","l"," ","M","y","e","r","s"," ","S","q","u","i","b","b"," ","C","o","m","p","a","n","y">>,
      <<"U","n","i","v","e","r","s","i","t","y"," ","o","f"," ","C","a","l","i","f","o","r","n","i","a",","," ","S","a","n"," ","F","r","a","n","c","i","s","c","o">>,
      <<"H","a","r","v","a","r","d"," ","M","e","d","i","c","a","l"," ","S","c","h","o","o","l">>,
      <<"M","a","s","s","a","c","h","u","s","e","t","t","s"," ","I","n","s","t","i","t","u","t","e"," ","o","f"," ","T","e","c","h","n","o","l","o","g","y">>,
      <<"J","o","h","n","s"," ","H","o","p","k","i","n","s"," ","H","o","s","p","i","t","a","l">>,
      <<"P","f","i","z","e","r"," ","I","n","c",".",","," ","G","l","o","b","a","l"," ","R","&","D",","," ","N","e","w"," ","Y","o","r","k",","," ","N","Y">> }

EmailParts ==
    { <<"a">>,
      <<"@">>,
      <<"p","f","i","z","e","r">>,
      <<"B","i","o","n","t","e","c","h",".","D","E">>,
      <<"x">>,
      <<".","c","o","m">>,
      <<"e","d","u">>,
      <<".","o","r","g">> }

TestEmails ==
    { <<"j","o","h","n",".","d","o","e","@","p","f","i","z","e","r",".","c","o","m">>,
      <<"r","e","s","e","a","r","c","h","e","r","@","b","i","o","t","e","c","h",".","c","o","m">>,
      <<"s","t","u","d","e","n","t","@","u","n","i","v","e","r","s","i","t","y",".","e","d","u">>,
      <<"i","n","v","a","l","i","d","-","e","m","a","i","l">> }

AuthorPool ==
    { \* the test's company author
      [first_name |-> <<"J","o","h","n">>, last_name |-> <<"D","o","e">>,
       affiliation |-> <<"P","f","i","z","e","r"," ","I","n","c",".",","," ","N","Y">>,
       email |-> <<"j","o","h","n","@","p","f","i","z","e","r",".","c","o","m">>],
      \* the test's academic author
      [first_name |-> <<"J","a","n","e">>, last_name |-> <<"S","m","i","t","h">>,
       affiliation |-> <<"U","n","i","v","e","r","s","i","t","y"," ","o","f"," ","C","a","l","i","f","o","r","n","i","a">>,
       email |-> <<"j","a","n","e","@","u","c","s","f",".","e","d","u">>],
      \* a second affiliation of the same company, no email
      [first_name |-> <<"A","n","n">>, last_name |-> <<"L","e","e">>,
       affiliation |-> <<"P","f","i","z","e","r"," ","L","t","d",".",","," ","U","K">>,
       email |-> None],
      \* academic affiliation, corporate email
      [first_name |-> <<"B","o","b">>, last_name |-> <<"R","a","y">>,
       affiliation |-> <<"H","a","r","v","a","r","d"," ","M","e","d","i","c","a","l"," ","S","c","h","o","o","l">>,
       email |-> <<"b","o","b","@","x",".","c","o","m">>],
      \* a company affiliation that yields no name, empty email
      [first_name |-> <<"A","l">>, last_name |-> <<"K","i","m">>,
       affiliation |-> <<","," ","P","f","i","z","e","r"," ","I","n","c",".">>,
       email |-> << >>],
      \* a company by the suffix rule, no email
      [first_name |-> <<"E","v","e">>, last_name |-> <<"F","o","x">>,
       affiliation |-> <<"A","c","m","e"," ","D","r","u","g"," ","L","L","C">>,
       email |-> None] }

\* every sequence of at most n authors of the pool
RECURSIVE AuthorLists(_)
AuthorLists(n) ==
    IF n = 0 THEN { << >> }
    ELSE LET shorter == AuthorLists(n - 1)
         IN  shorter \cup { s \o <<a>> : s \in shorter, a \in AuthorPool }

\* every list of at most k author lists holding at most n authors in all
RECURSIVE AuthorListBatches(_, _)
AuthorListBatches(k, n) ==
    IF k = 0 THEN { << >> }
    ELSE { << >> } \cup
         UNION { { <<authors>> \o rest : rest \in AuthorListBatches(k - 1, n - Len(authors)) }
                 : authors \in AuthorLists(n) }

\* the papers of a batch; pmid is the position in the batch
PaperBatches ==
    { [i \in 1..Len(b) |-> [pmid |-> i, authors |-> b[i]]]
      : b \in AuthorListBatches(MaxPapers, MaxAuthors) }

AffiliationInputs == Concats(AffiliationParts, MaxAffiliationParts) \cup TestAffiliations

EmailInputs == Concats(EmailParts, MaxEmailParts) \cup TestEmails

(***************************************************************************)
(* PubMedAPIClient and main                                                *)
(*                                                                         *)
(* The client is called either directly, as the tests call it (caller =    *)
(* "test"), or by main (caller = "main").  log records, in order, each     *)
(* call of a pipeline stage by its name, each time.sleep of the rate limit *)
(* ("sleep") and each session.get ("get").                                 *)
(***************************************************************************)
\* what session.get / raise_for_status can do: return a success response,
\* raise a requests.RequestException (HTTPError on a non-success status,
\* Timeout, ConnectionError), or raise an exception of another type
RequestExceptions == {"http_error", "timeout", "connection_error"}

TransportOutcomes == {"ok", "other_exception"} \cup RequestExceptions

\* the text of an Id element: an identifier, or empty
IdTexts == {"12345", ""}

\* every sequence over S of at most n elements
RECURSIVE SeqsUpTo(_, _)
SeqsUpTo(S, n) ==
    IF n = 0 THEN { << >> }
    ELSE LET shorter == SeqsUpTo(S, n - 1)
         IN  shorter \cup { s \o <<x>> : s \in shorter, x \in S }

\* response bodies of esearch: not XML, XML without IdList, XML with IdList
SearchBodies ==
    { [parsable |-> FALSE, has_id_list |-> FALSE, ids |-> << >>, articles |-> 0],
      [parsable |-> TRUE, has_id_list |-> FALSE, ids |-> << >>, articles |-> 0] }
    \cup { [parsable |-> TRUE, has_id_list |-> TRUE, ids |-> ids, articles |-> 0]
           : ids \in SeqsUpTo(IdTexts, MaxIds) }

\* response bodies of efetch: not XML, or XML with n PubmedArticle records
FetchBodies ==
    { [parsable |-> FALSE, has_id_list |-> FALSE, ids |-> << >>, articles |-> 0] }
    \cup { [parsable |-> TRUE, has_id_list |-> FALSE, ids |-> << >>, articles |-> n]
           : n \in 0..MaxArticles }

\* the arguments the tests may pass to fetch_paper_details
PmidLists == SeqsUpTo(IdTexts \ {""}, MaxIds)

NoResult == [kind |-> "none", exception |-> "none"]
Return == [kind |-> "return", exception |-> "none"]
Raise(e) == [kind |-> "raise", exception |-> e]

(***************************************************************************)
(* PubMedParser                                                            *)
(*                                                                         *)
(* The text of a child element is None when the element is missing, the    *)
(* empty string when it has no text.  An optional element is << >> when    *)
(* missing and <<e>> when present.                                         *)
(***************************************************************************)
\* found.text if found is not None and found.text else default
safe_find_text(found, default) ==
    IF found # None /\ found # << >> THEN found ELSE default

Digits == {"0", "1", "2", "3", "4", "5", "6", "7", "8", "9"}

DigitValue ==
    ("0" :> 0) @@ ("1" :> 1) @@ ("2" :> 2) @@ ("3" :> 3) @@ ("4" :> 4) @@
    ("5" :> 5) @@ ("6" :> 6) @@ ("7" :> 7) @@ ("8" :> 8) @@ ("9" :> 9)

\* int(s) for a string of digits
RECURSIVE ToInt(_)
ToInt(s) ==
    IF s = << >> THEN 0
    ELSE 10 * ToInt(SubSeq(s, 1, Len(s) - 1)) + DigitValue[s[Len(s)]]

\* the dict literal of parse_publication_date
month_map ==
    (<<"J","a","n">> :> <<"0","1">>) @@ (<<"F","e","b">> :> <<"0","2">>) @@ (<<"M","a","r">> :> <<"0","3">>) @@
    (<<"A","p","r">> :> <<"0","4">>) @@ (<<"M","a","y">> :> <<"0","5">>) @@ (<<"J","u","n">> :> <<"0","6">>) @@
    (<<"J","u","l">> :> <<"0","7">>) @@ (<<"A","u","g">> :> <<"0","8">>) @@ (<<"S","e","p">> :> <<"0","9">>) @@
    (<<"O","c","t">> :> <<"1","0">>) @@ (<<"N","o","v">> :> <<"1","1">>) @@ (<<"D","e","c">> :> <<"1","2">>)

\* s.zfill(2): zeros on the left, after a leading sign
zfill2(s) ==
    IF Len(s) >= 2 THEN s
    ELSE IF Len(s) = 1 /\ s[1] \in {"+", "-"} THEN <<s[1], "0">>
    ELSE IF Len(s) = 1 THEN <<"0", s[1]>>
    ELSE <<"0", "0">>

\* the number of days of month m of year y in the proleptic Gregorian calendar
DaysInMonth(y, m) ==
    IF m \in {4, 6, 9, 11} THEN 30
    ELSE IF m # 2 THEN 31
    ELSE IF y % 4 = 0 /\ (y % 100 # 0 \/ y % 400 = 0) THEN 29
    ELSE 28

\* the directive %m of strptime: 1[0-2]|0[1-9]|[1-9]
MatchesMonthDirective(m) ==
    \/ Len(m) = 2 /\ m[1] = "1" /\ m[2] \in {"0", "1", "2"}
    \/ Len(m) = 2 /\ m[1] = "0" /\ m[2] \in Digits \ {"0"}
    \/ Len(m) = 1 /\ m[1] \in Digits \ {"0"}

\* the directive %d of strptime: 3[0-1]|[1-2]\d|0[1-9]|[1-9]| [1-9]
MatchesDayDirective(d) ==
    \/ Len(d) = 2 /\ d[1] = "3" /\ d[2] \in {"0", "1"}
    \/ Len(d) = 2 /\ d[1] \in {"1", "2"} /\ d[2] \in Digits
    \/ Len(d) = 2 /\ d[1] = "0" /\ d[2] \in Digits \ {"0"}
    \/ Len(d) = 1 /\ d[1] \in Digits \ {"0"}
    \/ Len(d) = 2 /\ d[1] = " " /\ d[2] \in Digits \ {"0"}

\* datetime.strptime(s, "%Y-%m-%d") raises no ValueError: s is four digits,
\* "-", a month, "-", a day and nothing else, and the three numbers are a
\* date of the calendar from year 1 on
strptime_accepts(s) ==
    /\ Len(s) >= 8
    /\ \A i \in 1..4 : s[i] \in Digits
    /\ s[5] = "-"
    /\ LET rest == SubSeq(s, 6, Len(s))
           dash == IndexOf(rest, "-")
           m == SubSeq(rest, 1, dash - 1)
           d == SubSeq(rest, dash + 1, Len(rest))
           number(x) == ToInt(SelectSeq(x, LAMBDA c : c # " "))
       IN  /\ dash > 0
           /\ MatchesMonthDirective(m)
           /\ MatchesDayDirective(d)
           /\ ToInt(SubSeq(s, 1, 4)) >= 1
           /\ number(d) <= DaysInMonth(ToInt(SubSeq(s, 1, 4)), number(m))

\* f"{year}-{month}-{day}"
FormatDate(year, month, day) == year \o <<"-">> \o month \o <<"-">> \o day

\* the body of the loop of parse_publication_date for a date element that
\* is present: << >> when strptime raises ValueError, else <<the date>>
date_step(date_elem) ==
    LET year == safe_find_text(date_elem.Year, <<"1","9","0","0">>)
        found_month == safe_find_text(date_elem.Month, <<"0","1">>)
        day == safe_find_text(date_elem.Day, <<"0","1">>)
        month == IF found_month \in DOMAIN month_map THEN month_map[found_month]
                 ELSE found_month
        text == FormatDate(year, zfill2(month), zfill2(day))
    IN  IF strptime_accepts(text) THEN <<text>> ELSE << >>

\* the loop `for date_path in date_elements`, from the i-th path on;
\* dates[i] is what article_elem.find(date_elements[i]) finds
RECURSIVE DateLoop(_, _)
DateLoop(dates, i) ==
    IF i > Len(dates) THEN <<"1","9","0","0","-","0","1","-","0","1">>
    ELSE IF dates[i] = << >> THEN DateLoop(dates, i + 1)
    ELSE LET found == date_step(dates[i][1])
         IN  IF found # << >> THEN found[1] ELSE DateLoop(dates, i + 1)

parse_publication_date(article_elem) == DateLoop(article_elem.dates, 1)

Letters == DOMAIN LowerCaseOf \cup { LowerCaseOf[c] : c \in DOMAIN LowerCaseOf }

\* the character classes of email_pattern: [A-Za-z0-9._%+-], [A-Za-z0-9.-],
\* [A-Z|a-z], and the word characters that \b tells from the others
LocalChars == Letters \cup Digits \cup {".", "_", "%", "+", "-"}
DomainChars == Letters \cup Digits \cup {".", "-"}
TldChars == Letters \cup {"|"}
WordChars == Letters \cup Digits \cup {"_"}

\* \b between text[p] and text[p + 1]
WordBoundary(text, p) ==
    LET word(q) == q \in 1..Len(text) /\ text[q] \in WordChars
    IN  word(p) # word(p + 1)

\* the last position of the longest run of characters of chars that starts
\* at position from; from - 1 when text[from] is not one
RunEnd(text, from, chars) ==
    CHOOSE e \in (from - 1)..Len(text) :
        /\ \A k \in from..e : text[k] \in chars
        /\ e = Len(text) \/ text[e + 1] \notin chars

\* the matches of email_pattern that start at position i, as pairs <<e, p>>:
\* the domain part ends at e, text[e + 1] is the period, the match ends at p
EmailMatchesAt(text, i) ==
    LET at == RunEnd(text, i, LocalChars) + 1
    IN  IF ~(WordBoundary(text, i - 1) /\ at > i /\ at <= Len(text) /\ text[at] = "@")
        THEN {}
        ELSE LET r == RunEnd(text, at + 1, DomainChars)
             IN  { ep \in ((at + 1)..r) \X ((at + 1)..Len(text)) :
                     /\ ep[1] < r
                     /\ text[ep[1] + 1] = "."
                     /\ ep[2] >= ep[1] + 3
                     /\ ep[2] <= RunEnd(text, ep[1] + 2, TldChars)
                     /\ WordBoundary(text, ep[2]) }

Max(S) == CHOOSE x \in S : \A y \in S : y <= x

\* re.findall(email_pattern, text)[0], or None: the leftmost match, its
\* greedy parts as long as they can be, the domain part first
extract_email_from_text(text) ==
    LET starts == { i \in 1..Len(text) : EmailMatchesAt(text, i) # {} }
    IN  IF starts = {} THEN None
        ELSE LET i == CHOOSE i \in starts : \A j \in starts : i <= j
                 found == EmailMatchesAt(text, i)
                 e == Max({ ep[1] : ep \in found })
                 p == Max({ ep[2] : ep \in { x \in found : x[1] = e } })
             IN  SubSeq(text, i, p)

\* the body of the loop of parse_authors
parse_author_step(author_elem, authors) ==
    LET first_name == safe_find_text(author_elem.ForeName, << >>)
        last_name == safe_find_text(author_elem.LastName, << >>)
        affiliation == safe_find_text(author_elem.Affiliation, << >>)
    IN  IF last_name = << >> THEN authors
        ELSE Append(authors,
                    [first_name |-> first_name,
                     last_name |-> last_name,
                     affiliation |-> affiliation,
                     email |-> IF affiliation # << >>
                               THEN extract_email_from_text(affiliation)
                               ELSE None])

\* the loop `for author_elem in author_list.findall('Author')`
RECURSIVE ParseAuthorsLoop(_, _, _)
ParseAuthorsLoop(author_elems, i, authors) ==
    IF i > Len(author_elems) THEN authors
    ELSE ParseAuthorsLoop(author_elems, i + 1, parse_author_step(author_elems[i], authors))

parse_authors(article_elem) ==
    IF article_elem.author_list = << >> THEN << >>
    ELSE ParseAuthorsLoop(article_elem.author_list[1], 1, << >>)

\* the email of the first author that has one, or None
RECURSIVE find_corresponding_author_email(_)
find_corresponding_author_email(authors) ==
    IF authors = << >> THEN None
    ELSE IF Truthy(authors[1].email) THEN authors[1].email
    ELSE find_corresponding_author_email(Tail(authors))

\* the Paper that the body of the loop of parse_papers builds
BuildPaper(article_elem) ==
    LET authors == parse_authors(article_elem)
    IN  [pmid |-> article_elem.pmid,
         title |-> article_elem.title,
         publication_date |-> parse_publication_date(article_elem),
         authors |-> authors,
         corresponding_author_email |-> find_corresponding_author_email(authors)]

\* the body of the loop of parse_papers without its try statement: an
\* error raised by a step of the body leaves the loop
article_step_uncaught(article_elem, papers) ==
    IF ~Truthy(article_elem.pmid) THEN [papers |-> papers, raised |-> FALSE]
    ELSE IF ~Truthy(article_elem.title) THEN [papers |-> papers, raised |-> FALSE]
    ELSE IF article_elem.raises THEN [papers |-> papers, raised |-> TRUE]
    ELSE [papers |-> Append(papers, BuildPaper(article_elem)), raised |-> FALSE]

\* the body of the loop of parse_papers for one PubmedArticle: the two
\* skips, the Paper appended, and `except Exception: continue` when a step
\* of the body raises, so that no error leaves the body
article_step(article_elem, papers) ==
    IF ~Truthy(article_elem.pmid) THEN [papers |-> papers, raised |-> FALSE]
    ELSE IF ~Truthy(article_elem.title) THEN [papers |-> papers, raised |-> FALSE]
    ELSE IF article_elem.raises THEN [papers |-> papers, raised |-> FALSE]
    ELSE [papers |-> Append(papers, BuildPaper(article_elem)), raised |-> FALSE]

\* the loop `for article_elem in xml_data.findall('.//PubmedArticle')`; an
\* error that leaves the body ends the call
RECURSIVE ParsePapersLoop(_, _, _)
ParsePapersLoop(article_elems, i, papers) ==
    IF i > Len(article_elems) THEN [kind |-> "return", papers |-> papers]
    ELSE LET step == article_step(article_elems[i], papers)
         IN  IF step.raised THEN [kind |-> "raise", papers |-> << >>]
             ELSE ParsePapersLoop(article_elems, i + 1, step.papers)

parse_papers(xml_data) == ParsePapersLoop(xml_data, 1, << >>)

(***************************************************************************)
(* CSVExporter                                                             *)
(***************************************************************************)
HEADERS ==
    << <<"P","u","b","m","e","d","I","D">>,
       <<"T","i","t","l","e">>,
       <<"P","u","b","l","i","c","a","t","i","o","n"," ","D","a","t","e">>,
       <<"N","o","n","-","a","c","a","d","e","m","i","c"," ","A","u","t","h","o","r","(","s",")">>,
       <<"C","o","m","p","a","n","y"," ","A","f","f","i","l","i","a","t","i","o","n","(","s",")">>,
       <<"C","o","r","r","e","s","p","o","n","d","i","n","g"," ","A","u","t","h","o","r"," ","E","m","a","i","l">> >>

\* Author.full_name
full_name(author) == Strip(author.first_name \o <<" ">> \o author.last_name)

\* sep.join(list)
RECURSIVE Join(_, _)
Join(list, sep) ==
    IF list = << >> THEN << >>
    ELSE IF Len(list) = 1 THEN list[1]
    ELSE list[1] \o sep \o Join(Tail(list), sep)

format_authors_list(authors) ==
    IF authors = << >> THEN << >>
    ELSE Join([k \in 1..Len(authors) |-> full_name(authors[k])], <<";"," ">>)

format_affiliations_list(affiliations) ==
    IF affiliations = << >> THEN << >>
    ELSE Join(affiliations, <<";"," ">>)

\* the list `row` that export_papers builds for one paper; a paper the
\* filter has not annotated has neither company_authors nor
\* company_affiliations and getattr gives the default []
export_row(paper) ==
    LET company_authors == IF paper.annotated THEN paper.company_authors ELSE << >>
        company_affiliations == IF paper.annotated THEN paper.company_affiliations ELSE << >>
    IN  << paper.pmid,
           paper.title,
           paper.publication_date,
           format_authors_list(company_authors),
           format_affiliations_list(company_affiliations),
           IF Truthy(paper.corresponding_author_email)
           THEN paper.corresponding_author_email ELSE << >> >>

\* csv.writer, dialect excel: the characters that make a field quoted are
\* the delimiter, the quote character and those of the line terminator
QuotedChars == {",", "\"", "\r", "\n"}

\* the field between quote characters, each quote character in it doubled
RECURSIVE DoubleQuotes(_)
DoubleQuotes(field) ==
    IF field = << >> THEN << >>
    ELSE (IF field[1] = "\"" THEN <<"\"", "\"">> ELSE <<field[1]>>)
         \o DoubleQuotes(Tail(field))

\* a writer that never quotes a field
csv_field_unquoted(field) == field

\* one field as csv.writer writes it (QUOTE_MINIMAL, doublequote)
csv_field(field) ==
    IF \E k \in 1..Len(field) : field[k] \in QuotedChars
    THEN <<"\"">> \o DoubleQuotes(field) \o <<"\"">>
    ELSE field

\* writer.writerow(row) for a row of two or more fields: the fields joined
\* by the delimiter, then the line terminator "\r\n"
writerow(row) ==
    Join([k \in 1..Len(row) |-> csv_field(row[k])], <<",">>) \o <<"\r", "\n">>

\* csv.reader, dialect excel: what the parser of the csv module does with
\* the character c that follows the character prev; field and row are the
\* field and the record being read, rows the records read so far.  A
\* record ends where its line ends: after "\n", or after a "\r" that no
\* "\n" follows.
reader_step(reader, c, prev) ==
    LET newline == c \in {"\r", "\n"}
        line_ended == reader.state = "EAT_CRNL" /\ ~(c = "\n" /\ prev = "\r")
        at_record == IF line_ended
                     THEN [state |-> "START_RECORD", field |-> << >>, row |-> << >>,
                           rows |-> Append(reader.rows, reader.row)]
                     ELSE reader
        r == IF at_record.state = "START_RECORD" /\ ~newline
             THEN [at_record EXCEPT !.state = "START_FIELD"]
             ELSE at_record
        end_field(state) == [r EXCEPT !.state = state, !.field = << >>,
                                      !.row = Append(r.row, r.field)]
        add_char(state) == [r EXCEPT !.state = state, !.field = Append(r.field, c)]
    IN  CASE r.state = "EAT_CRNL" -> r
          [] r.state = "START_RECORD" -> [r EXCEPT !.state = "EAT_CRNL"]
          [] r.state = "START_FIELD" ->
                IF newline THEN end_field("EAT_CRNL")
                ELSE IF c = "\"" THEN [r EXCEPT !.state = "IN_QUOTED_FIELD"]
                ELSE IF c = "," THEN end_field("START_FIELD")
                ELSE add_char("IN_FIELD")
          [] r.state = "IN_FIELD" ->
                IF newline THEN end_field("EAT_CRNL")
                ELSE IF c = "," THEN end_field("START_FIELD")
                ELSE add_char("IN_FIELD")
          [] r.state = "IN_QUOTED_FIELD" ->
                IF c = "\"" THEN [r EXCEPT !.state = "QUOTE_IN_QUOTED_FIELD"]
                ELSE add_char("IN_QUOTED_FIELD")
          [] r.state = "QUOTE_IN_QUOTED_FIELD" ->
                IF c = "\"" THEN add_char("IN_QUOTED_FIELD")
                ELSE IF c = "," THEN end_field("START_FIELD")
                ELSE IF newline THEN end_field("EAT_CRNL")
                ELSE add_char("IN_FIELD")

\* the reader after the characters text[from..to]: after the first half,
\* then after the second
RECURSIVE reader_feed(_, _, _, _)
reader_feed(text, from, to, reader) ==
    IF from > to THEN reader
    ELSE IF from = to
    THEN reader_step(reader, text[from], IF from > 1 THEN text[from - 1] ELSE "")
    ELSE LET middle == (from + to) \div 2
         IN  CHOOSE after \in { reader_feed(text, middle + 1, to, half) :
                                half \in { reader_feed(text, from, middle, reader) } } : TRUE

\* list(csv.reader(...)) over text: the records read, and the record the
\* end of the text ends
csv_reader(text) ==
    LET start == [state |-> "START_RECORD", field |-> << >>, row |-> << >>, rows |-> << >>]
        reader == reader_feed(text, 1, Len(text), start)
    IN  IF reader.state = "START_RECORD" THEN reader.rows
        ELSE IF reader.state = "EAT_CRNL" THEN Append(reader.rows, reader.row)
        ELSE Append(reader.rows, Append(reader.row, reader.field))

(***************************************************************************)
(* Inputs of the parser and of the exporter                                *)
(***************************************************************************)
\* article records of one parse_papers call
MaxRecords == 3

\* date elements: the test's date, 30 February, 29 February of a leap
\* year, a year alone, an element without Year, Month and Day (as a PubDate
\* that holds a MedlineDate), one-digit month and day, a day written with
\* a leading blank, a season with an empty Day, a two-digit year
DateElems ==
    { [Year |-> <<"2","0","2","3">>, Month |-> <<"0","5">>, Day |-> <<"1","5">>],
      [Year |-> <<"2","0","2","3">>, Month |-> <<"F","e","b">>, Day |-> <<"3","0">>],
      [Year |-> <<"2","0","2","4">>, Month |-> <<"F","e","b">>, Day |-> <<"2","9">>],
      [Year |-> <<"2","0","2","3">>, Month |-> None, Day |-> None],
      [Year |-> None, Month |-> None, Day |-> None],
      [Year |-> <<"2","0","2","3">>, Month |-> <<"5">>, Day |-> <<"7">>],
      [Year |-> <<"2","0","2","3">>, Month |-> <<"0","1">>, Day |-> <<" ","5">>],
      [Year |-> <<"2","0","2","3">>, Month |-> <<"S","p","r","i","n","g">>, Day |-> << >>],
      [Year |-> <<"2","3">>, Month |-> <<"1","2">>, Day |-> <<"3","1">>] }

\* what article_elem.find(date_path) finds: nothing, or a date element
DateCandidates == { << >> } \cup { <<date_elem>> : date_elem \in DateElems }

\* the ArticleDate, PubDate, DateCompleted and DateRevised of an article
ArticleDates == [1..4 -> DateCandidates]

NoDates == [i \in 1..4 |-> << >>]

\* articles that differ in their date elements only
DateArticles ==
    { [pmid |-> <<"1","2","3","4","5">>, title |-> <<"T","e","s","t"," ","P","a","p","e","r">>, dates |-> dates,
       author_list |-> << >>, raises |-> FALSE] : dates \in ArticleDates }

\* the Author elements of the test, and one without LastName
AuthorElems ==
    << [ForeName |-> <<"J","o","h","n">>, LastName |-> <<"D","o","e">>,
        Affiliation |-> <<"P","f","i","z","e","r"," ","I","n","c",".",","," ","N","e","w"," ","Y","o","r","k",","," ","N","Y">>],
       [ForeName |-> <<"M","e","i">>, LastName |-> None,
        Affiliation |-> <<"A","c","m","e"," ","D","r","u","g"," ","L","L","C">>],
       [ForeName |-> <<"J","a","n","e">>, LastName |-> <<"S","m","i","t","h">>,
        Affiliation |-> <<"U","n","i","v","e","r","s","i","t","y"," ","o","f"," ","C","a","l","i","f","o","r","n","i","a",","," ","e","m","a","i","l",":"," ","j","a","n","e","@","e","x","a","m","p","l","e",".","c","o","m">>] >>

\* PubmedArticle records: complete, without PMID element, with an empty
\* PMID, without ArticleTitle, one whose parsing raises, one without dates
\* and without AuthorList
ArticlePool ==
    { [pmid |-> <<"1">>, title |-> <<"T","e","s","t"," ","P","a","p","e","r">>,
       dates |-> [NoDates EXCEPT ![1] = <<[Year |-> <<"2","0","2","3">>, Month |-> <<"0","5">>, Day |-> <<"1","5">>]>>],
       author_list |-> <<AuthorElems>>, raises |-> FALSE],
      [pmid |-> None, title |-> <<"N","o"," ","P","M","I","D">>, dates |-> NoDates,
       author_list |-> << >>, raises |-> FALSE],
      [pmid |-> << >>, title |-> <<"E","m","p","t","y"," ","P","M","I","D">>, dates |-> NoDates,
       author_list |-> << >>, raises |-> FALSE],
      [pmid |-> <<"4">>, title |-> None, dates |-> NoDates,
       author_list |-> << >>, raises |-> FALSE],
      [pmid |-> <<"5">>, title |-> <<"R","a","i","s","e","s">>,
       dates |-> [NoDates EXCEPT ![2] = <<[Year |-> <<"2","0","2","3">>, Month |-> <<"F","e","b">>, Day |-> <<"3","0">>]>>],
       author_list |-> << >>, raises |-> TRUE],
      [pmid |-> <<"6">>, title |-> <<"B","a","r","e">>,
       dates |-> [NoDates EXCEPT ![2] = <<[Year |-> <<"2","0","2","3">>, Month |-> <<"F","e","b">>, Day |-> <<"3","0">>]>>],
       author_list |-> << >>, raises |-> FALSE] }

\* the PubmedArticle records of one response
ArticleBatches == SeqsUpTo(ArticlePool, MaxRecords)

\* papers of one export_papers call
MaxExportPapers == 2

\* papers as the filter hands them to the exporter: the test's paper; one
\* with a comma and quote characters in the title, two company authors, one
\* without first name, and no email; one with a line break and a carriage
\* return in the title, an empty email and no annotation of the filter
ExportPool ==
    { [pmid |-> <<"1","2","3","4","5">>, title |-> <<"T","e","s","t"," ","P","a","p","e","r">>, publication_date |-> <<"2","0","2","3","-","0","1","-","0","1">>,
       corresponding_author_email |-> <<"j","o","h","n","@","p","f","i","z","e","r",".","c","o","m">>, annotated |-> TRUE,
       company_authors |-> << [first_name |-> <<"J","o","h","n">>, last_name |-> <<"D","o","e">>,
                               affiliation |-> <<"P","f","i","z","e","r"," ","I","n","c",".">>, email |-> None] >>,
       company_affiliations |-> << <<"P","f","i","z","e","r">> >>],
      [pmid |-> <<"2">>, title |-> <<"A"," ","\"","n","e","w","\"",","," ","d","r","u","g">>, publication_date |-> <<"2","0","2","4","-","0","2","-","2","9">>,
       corresponding_author_email |-> None, annotated |-> TRUE,
       company_authors |-> << [first_name |-> << >>, last_name |-> <<"K","i","m">>,
                               affiliation |-> <<"A","c","m","e"," ","D","r","u","g"," ","L","L","C">>, email |-> None],
                              [first_name |-> <<"J","a","n","e">>, last_name |-> <<"S","m","i","t","h">>,
                               affiliation |-> <<"N","o","v","a","r","t","i","s"," ","C","o","r","p",".">>, email |-> None] >>,
       company_affiliations |-> << <<"A","c","m","e"," ","D","r","u","g">>, <<"N","o","v","a","r","t","i","s"," ","C","o","r","p">> >>],
      [pmid |-> <<"3">>, title |-> <<"T","w","o","\n","l","i","n","e","s","\r">>, publication_date |-> <<"1","9","0","0","-","0","1","-","0","1">>,
       corresponding_author_email |-> << >>, annotated |-> FALSE,
       company_authors |-> << >>, company_affiliations |-> << >>] }

ExportBatches == SeqsUpTo(ExportPool, MaxExportPapers)

\* the filename argument: None, the empty string, a name
Filenames == { None, << >>, <<"o","u","t",".","c","s","v">> }

\* the file of that name before the call: none, or one with text in it
DiskStates == { << >>, << <<"o","l","d">> >> }

VARIABLES
    affiliation,      \* the argument of the classifier calls
    is_company,       \* << >>, or <<r>> once is_company_affiliation returned r
    company_name,     \* << >>, or <<r>> once extract_company_name returned r
    email,            \* the argument of is_corporate_email
    is_corporate,     \* << >>, or <<r>> once is_corporate_email returned r
    papers,           \* the argument of filter_papers_with_company_authors
    filter_result,    \* << >>, or <<r>> once the filter returned
    caller,           \* who calls the client: "test" or "main"
    pc,               \* the position of the running call
    op,               \* the client method called last
    pmids,            \* search_papers' result, fetch_paper_details' argument
    transport,        \* what the last session.get did
    response,         \* << >>, or <<body>> of the last response
    result,           \* how the last call ended: returned, or raised what
    xml_data,         \* the article records fetch_paper_details returned
    parsed_count,     \* main: the papers parse_papers returned
    filtered_count,   \* main: the papers the filter returned
    log,              \* stage calls, sleeps and requests, in order
    exit_code,        \* << >>, or <<n>> once the process exited with n
    calls,            \* the calls the tests made
    article_elem,     \* the argument of parse_publication_date
    publication_date, \* << >>, or <<r>> once parse_publication_date returned r
    article_elems,    \* the PubmedArticle records parse_papers is called on
    parse_result,     \* << >>, or <<r>> once parse_papers ended with r
    out_papers,       \* the papers export_papers is called on
    filename,         \* the filename argument of export_papers
    disk,             \* << >>, or <<the text of the file named filename>>
    handle,           \* the file object of export_papers: none, open, closed
    stdout_text,      \* what has been written to sys.stdout
    stdout_closed,    \* whether sys.stdout has been closed
    export_pc,        \* the position of export_papers
    export_i,         \* the paper the loop of export_papers is at
    export_result     \* how export_papers ended

vars == <<affiliation, is_company, company_name, email, is_corporate,
          papers, filter_result, caller, pc, op, pmids, transport, response,
          result, xml_data, parsed_count, filtered_count, log, exit_code, calls,
          article_elem, publication_date, article_elems, parse_result,
          out_papers, filename, disk, handle, stdout_text, stdout_closed,
          export_pc, export_i, export_result>>

pipeline_vars == <<caller, pc, op, pmids, transport, response, result, xml_data,
                   parsed_count, filtered_count, log, exit_code, calls>>

\* the pipeline's variables while neither the client nor main is modelled
PipelineUnused ==
    /\ caller = "test"
    /\ pc = "start"
    /\ op = "none"
    /\ pmids = << >>
    /\ transport = "none"
    /\ response = << >>
    /\ result = NoResult
    /\ xml_data = 0
    /\ parsed_count = 0
    /\ filtered_count = 0
    /\ log = << >>
    /\ exit_code = << >>
    /\ calls = 0

filter_vars == <<papers, filter_result>>

\* the filter's variables while no filter call is modelled
FilterUnused ==
    /\ papers = << >>
    /\ filter_result = << >>

classifier_vars == <<affiliation, is_company, company_name, email, is_corporate>>

parser_vars == <<article_elem, publication_date, article_elems, parse_result>>

\* the parser's variables while no parser call is modelled
ParserUnused ==
    /\ article_elem = << >>
    /\ publication_date = << >>
    /\ article_elems = << >>
    /\ parse_result = << >>

exporter_vars == <<out_papers, filename, disk, handle, stdout_text, stdout_closed,
                   export_pc, export_i, export_result>>

\* the exporter's variables while no export_papers call is modelled
ExporterUnused ==
    /\ out_papers = << >>
    /\ filename = None
    /\ disk = << >>
    /\ handle = "none"
    /\ stdout_text = << >>
    /\ stdout_closed = FALSE
    /\ export_pc = "start"
    /\ export_i = 1
    /\ export_result = NoResult

\* the classifier's variables while no classifier call is modelled
ClassifierUnused ==
    /\ affiliation = << >>
    /\ is_company = << >>
    /\ company_name = << >>
    /\ email = None
    /\ is_corporate = << >>

(***************************************************************************)
(* The classifier called on one affiliation                                *)
(***************************************************************************)
AffiliationInit ==
    /\ affiliation \in AffiliationInputs
    /\ is_company = << >>
    /\ company_name = << >>
    /\ email = None
    /\ is_corporate = << >>
    /\ FilterUnused
    /\ PipelineUnused
    /\ ParserUnused
    /\ ExporterUnused

CallIsCompanyAffiliation ==
    /\ is_company = << >>
    /\ is_company' = <<is_company_affiliation(affiliation)>>
    /\ UNCHANGED <<affiliation, company_name, email, is_corporate, filter_vars, pipeline_vars,
                   parser_vars, exporter_vars>>

CallExtractCompanyName ==
    /\ company_name = << >>
    /\ company_name' = <<extract_company_name(affiliation)>>
    /\ UNCHANGED <<affiliation, is_company, email, is_corporate, filter_vars, pipeline_vars,
                   parser_vars, exporter_vars>>

AffiliationNext == CallIsCompanyAffiliation \/ CallExtractCompanyName

AffiliationSpec == AffiliationInit /\ [][AffiliationNext]_vars

(***************************************************************************)
(* is_corporate_email called on one address                                *)
(***************************************************************************)
EmailInit ==
    /\ email \in EmailInputs
    /\ is_corporate = << >>
    /\ affiliation = << >>
    /\ is_company = << >>
    /\ company_name = << >>
    /\ FilterUnused
    /\ PipelineUnused
    /\ ParserUnused
    /\ ExporterUnused

CallIsCorporateEmail ==
    /\ is_corporate = << >>
    /\ is_corporate' = <<is_corporate_email(email)>>
    /\ UNCHANGED <<affiliation, is_company, company_name, email, filter_vars, pipeline_vars,
                   parser_vars, exporter_vars>>

EmailNext == CallIsCorporateEmail

EmailSpec == EmailInit /\ [][EmailNext]_vars

(***************************************************************************)
(* filter_papers_with_company_authors called on one batch of papers        *)
(***************************************************************************)
FilterInit ==
    /\ papers \in PaperBatches
    /\ filter_result = << >>
    /\ ClassifierUnused
    /\ PipelineUnused
    /\ ParserUnused
    /\ ExporterUnused

CallFilterPapers ==
    /\ filter_result = << >>
    /\ filter_result' = <<filter_papers_with_company_authors(papers)>>
    /\ UNCHANGED <<papers, classifier_vars, pipeline_vars,
                   parser_vars, exporter_vars>>

FilterNext == CallFilterPapers

FilterSpec == FilterInit /\ [][FilterNext]_vars

(***************************************************************************)
(* parse_publication_date called on one article                            *)
(***************************************************************************)
DateInit ==
    /\ article_elem \in DateArticles
    /\ publication_date = << >>
    /\ article_elems = << >>
    /\ parse_result = << >>
    /\ ClassifierUnused
    /\ FilterUnused
    /\ PipelineUnused
    /\ ExporterUnused

CallParsePublicationDate ==
    /\ publication_date = << >>
    /\ publication_date' = <<parse_publication_date(article_elem)>>
    /\ UNCHANGED <<article_elem, article_elems, parse_result, classifier_vars,
                   filter_vars, pipeline_vars, exporter_vars>>

DateNext == CallParsePublicationDate

DateSpec == DateInit /\ [][DateNext]_vars

(***************************************************************************)
(* parse_papers called on the article records of one response              *)
(***************************************************************************)
ParserInit ==
    /\ article_elems \in ArticleBatches
    /\ parse_result = << >>
    /\ article_elem = << >>
    /\ publication_date = << >>
    /\ ClassifierUnused
    /\ FilterUnused
    /\ PipelineUnused
    /\ ExporterUnused

CallParsePapers ==
    /\ parse_result = << >>
    /\ parse_result' = <<parse_papers(article_elems)>>
    /\ UNCHANGED <<article_elems, article_elem, publication_date, classifier_vars,
                   filter_vars, pipeline_vars, exporter_vars>>

ParserNext == CallParsePapers

ParserSpec == ParserInit /\ [][ParserNext]_vars

(***************************************************************************)
(* export_papers called once.  disk is the file named by filename, handle  *)
(* the file object export_papers opens, stdout_text what has been written  *)
(* to sys.stdout.  Every write may raise OSError.                          *)
(***************************************************************************)
ExportInit ==
    /\ out_papers \in ExportBatches
    /\ filename \in Filenames
    /\ disk \in DiskStates
    /\ handle = "none"
    /\ stdout_text = << >>
    /\ stdout_closed = FALSE
    /\ export_pc = "start"
    /\ export_i = 1
    /\ export_result = NoResult
    /\ ClassifierUnused
    /\ FilterUnused
    /\ PipelineUnused
    /\ ParserUnused

\* the local variable output: the file opened when `if filename` holds,
\* else sys.stdout
Output == IF Truthy(filename) THEN "file" ELSE "sys.stdout"

\* output.write(text)
Write(text) ==
    IF Output = "file"
    THEN disk' = <<disk[1] \o text>> /\ UNCHANGED stdout_text
    ELSE stdout_text' = stdout_text \o text /\ UNCHANGED disk

\* output.close()
Close ==
    IF Output = "file"
    THEN handle' = "closed" /\ UNCHANGED stdout_closed
    ELSE stdout_closed' = TRUE /\ UNCHANGED handle

\* `if not papers: return`, else `if filename: output = open(filename, 'w',
\* ...)`, which truncates the file or raises OSError, `else: output =
\* sys.stdout`
ExportOpen ==
    /\ export_pc = "start"
    /\ IF out_papers = << >>
       THEN /\ export_pc' = "done"
            /\ export_result' = Return
            /\ UNCHANGED <<disk, handle>>
       ELSE IF Truthy(filename)
       THEN \/ /\ disk' = << << >> >>
               /\ handle' = "open"
               /\ export_pc' = "header"
               /\ UNCHANGED export_result
            \/ /\ export_result' = Raise("OSError")
               /\ export_pc' = "done"
               /\ UNCHANGED <<disk, handle>>
       ELSE /\ export_pc' = "header"
            /\ UNCHANGED <<disk, handle, export_result>>
    /\ UNCHANGED <<out_papers, filename, stdout_text, stdout_closed, export_i, classifier_vars,
                   filter_vars, pipeline_vars, parser_vars>>

\* writer.writerow(self.HEADERS)
ExportWriteHeader ==
    /\ export_pc = "header"
    /\ \/ /\ Write(writerow(HEADERS))
          /\ export_pc' = "rows"
          /\ UNCHANGED export_result
       \/ /\ export_result' = Raise("OSError")
          /\ export_pc' = "finally"
          /\ UNCHANGED <<disk, stdout_text>>
    /\ UNCHANGED <<out_papers, filename, handle, stdout_closed, export_i, classifier_vars,
                   filter_vars, pipeline_vars, parser_vars>>

\* one turn of `for paper in papers`: the row built and written; after
\* the last paper the try block is left
ExportWriteRow ==
    /\ export_pc = "rows"
    /\ \/ /\ Write(writerow(export_row(out_papers[export_i])))
          /\ export_i' = export_i + 1
          /\ export_pc' = (IF export_i = Len(out_papers) THEN "finally" ELSE "rows")
          /\ UNCHANGED export_result
       \/ /\ export_result' = Raise("OSError")
          /\ export_pc' = "finally"
          /\ UNCHANGED <<disk, stdout_text, export_i>>
    /\ UNCHANGED <<out_papers, filename, handle, stdout_closed, classifier_vars,
                   filter_vars, pipeline_vars, parser_vars>>

\* export_papers that closes the file after the loop, outside any finally
ExportCloseAfterLoop ==
    /\ export_pc = "finally"
    /\ export_pc' = "done"
    /\ IF export_result.kind = "raise"
       THEN UNCHANGED <<handle, stdout_closed, export_result>>
       ELSE /\ IF Truthy(filename) THEN Close ELSE UNCHANGED <<handle, stdout_closed>>
            /\ export_result' = Return
    /\ UNCHANGED <<out_papers, filename, disk, stdout_text, export_i,
                   classifier_vars, filter_vars, pipeline_vars, parser_vars>>

\* `finally: if filename: output.close()`, then the call returns, or the
\* error raised in the try block goes on to the caller
ExportFinally ==
    /\ export_pc = "finally"
    /\ export_pc' = "done"
    /\ IF Truthy(filename) THEN Close ELSE UNCHANGED <<handle, stdout_closed>>
    /\ export_result' = (IF export_result.kind = "raise" THEN export_result ELSE Return)
    /\ UNCHANGED <<out_papers, filename, disk, stdout_text, export_i,
                   classifier_vars, filter_vars, pipeline_vars, parser_vars>>

ExportNext ==
    \/ ExportOpen
    \/ ExportWriteHeader
    \/ ExportWriteRow
    \/ ExportFinally

ExportSpec == ExportInit /\ [][ExportNext]_vars

(***************************************************************************)
(* The gateway and the command-line pipeline                               *)
(***************************************************************************)
PipelineInit ==
    /\ caller \in {"test", "main"}
    /\ pc = "start"
    /\ op = "none"
    /\ pmids = << >>
    /\ transport = "none"
    /\ response = << >>
    /\ result = NoResult
    /\ xml_data = 0
    /\ parsed_count = 0
    /\ filtered_count = 0
    /\ log = << >>
    /\ exit_code = << >>
    /\ calls = 0
    /\ ClassifierUnused
    /\ FilterUnused
    /\ ParserUnused
    /\ ExporterUnused

\* search_papers entered: params built, _make_request called
EnterSearchPapers ==
    /\ op' = "search_papers"
    /\ pc' = "request_sleep"
    /\ log' = Append(log, "search_papers")
    /\ transport' = "none"
    /\ response' = << >>
    /\ result' = NoResult

\* fetch_paper_details(ids) entered
EnterFetchPaperDetails(ids) ==
    /\ op' = "fetch_paper_details"
    /\ pmids' = ids
    /\ pc' = "fetch_check"
    /\ log' = Append(log, "fetch_paper_details")
    /\ transport' = "none"
    /\ response' = << >>
    /\ result' = NoResult

\* a test calls client.search_papers(query)
TestCallSearchPapers ==
    /\ caller = "test"
    /\ pc \in {"start", "api_done"}
    /\ calls < MaxCalls
    /\ calls' = calls + 1
    /\ EnterSearchPapers
    /\ UNCHANGED <<caller, pmids, xml_data, parsed_count, filtered_count, exit_code,
                   classifier_vars, filter_vars,
                   parser_vars, exporter_vars>>

\* a test calls client.fetch_paper_details(ids)
TestCallFetchPaperDetails ==
    /\ caller = "test"
    /\ pc \in {"start", "api_done"}
    /\ calls < MaxCalls
    /\ calls' = calls + 1
    /\ \E ids \in PmidLists : EnterFetchPaperDetails(ids)
    /\ UNCHANGED <<caller, xml_data, parsed_count, filtered_count, exit_code,
                   classifier_vars, filter_vars,
                   parser_vars, exporter_vars>>

\* fetch_paper_details without the test `if not pmids`
FetchCheckMissing ==
    /\ pc = "fetch_check"
    /\ pc' = "request_sleep"
    /\ UNCHANGED <<caller, op, pmids, transport, response, result, xml_data, parsed_count,
                   filtered_count, log, exit_code, calls, classifier_vars, filter_vars,
                   parser_vars, exporter_vars>>

\* fetch_paper_details: `if not pmids: raise ValueError`, else on to
\* _make_request
FetchCheck ==
    /\ pc = "fetch_check"
    /\ IF pmids = << >>
       THEN /\ result' = Raise("ValueError")
            /\ pc' = "api_done"
       ELSE /\ pc' = "request_sleep"
            /\ UNCHANGED result
    /\ UNCHANGED <<caller, op, pmids, transport, response, xml_data, parsed_count,
                   filtered_count, log, exit_code, calls, classifier_vars, filter_vars,
                   parser_vars, exporter_vars>>

\* _make_request without time.sleep(rate_limit_delay)
RequestSleepSkipped ==
    /\ pc = "request_sleep"
    /\ pc' = "request_get"
    /\ UNCHANGED <<caller, op, pmids, transport, response, result, xml_data, parsed_count,
                   filtered_count, log, exit_code, calls, classifier_vars, filter_vars,
                   parser_vars, exporter_vars>>

\* _make_request: time.sleep(rate_limit_delay)
RequestSleep ==
    /\ pc = "request_sleep"
    /\ log' = Append(log, "sleep")
    /\ pc' = "request_get"
    /\ UNCHANGED <<caller, op, pmids, transport, response, result, xml_data, parsed_count,
                   filtered_count, exit_code, calls, classifier_vars, filter_vars,
                   parser_vars, exporter_vars>>

\* _make_request: session.get and raise_for_status inside
\* `try ... except requests.RequestException`
RequestGet ==
    /\ pc = "request_get"
    /\ log' = Append(log, "get")
    /\ \E outcome \in TransportOutcomes :
          /\ transport' = outcome
          /\ IF outcome = "ok"
             THEN /\ \E body \in (IF op = "search_papers" THEN SearchBodies ELSE FetchBodies) :
                        response' = <<body>>
                  /\ pc' = (IF op = "search_papers" THEN "search_parse" ELSE "fetch_parse")
                  /\ UNCHANGED result
             ELSE /\ result' = (IF outcome \in RequestExceptions
                                THEN Raise("PubMedAPIError")
                                ELSE Raise("Exception"))
                  /\ pc' = "api_done"
                  /\ UNCHANGED response
    /\ UNCHANGED <<caller, op, pmids, xml_data, parsed_count, filtered_count,
                   exit_code, calls, classifier_vars, filter_vars,
                   parser_vars, exporter_vars>>

\* search_papers: ET.fromstring, the IdList, the Id texts that are not empty
SearchParse ==
    /\ pc = "search_parse"
    /\ pc' = "api_done"
    /\ LET body == response[1]
       IN  IF ~body.parsable
           THEN /\ result' = Raise("PubMedAPIError")
                /\ UNCHANGED pmids
           ELSE /\ result' = Return
                /\ pmids' = (IF ~body.has_id_list THEN << >>
                             ELSE SelectSeq(body.ids, LAMBDA text : text # ""))
    /\ UNCHANGED <<caller, op, transport, response, xml_data, parsed_count, filtered_count,
                   log, exit_code, calls, classifier_vars, filter_vars,
                   parser_vars, exporter_vars>>

\* fetch_paper_details: ET.fromstring, return root
FetchParse ==
    /\ pc = "fetch_parse"
    /\ pc' = "api_done"
    /\ LET body == response[1]
       IN  IF ~body.parsable
           THEN /\ result' = Raise("PubMedAPIError")
                /\ UNCHANGED xml_data
           ELSE /\ result' = Return
                /\ xml_data' = body.articles
    /\ UNCHANGED <<caller, op, pmids, transport, response, parsed_count, filtered_count,
                   log, exit_code, calls, classifier_vars, filter_vars,
                   parser_vars, exporter_vars>>

\* main, step 1: api_client.search_papers(query, max_results)
MainSearch ==
    /\ caller = "main"
    /\ pc = "start"
    /\ EnterSearchPapers
    /\ UNCHANGED <<caller, pmids, xml_data, parsed_count, filtered_count, exit_code,
                   calls, classifier_vars, filter_vars,
                   parser_vars, exporter_vars>>

\* main after search_papers returned: `if not pmids: sys.exit(0)`, else
\* step 2: api_client.fetch_paper_details(pmids)
MainAfterSearch ==
    /\ caller = "main"
    /\ pc = "api_done"
    /\ op = "search_papers"
    /\ result.kind = "return"
    /\ IF pmids = << >>
       THEN /\ pc' = "exited"
            /\ exit_code' = <<0>>
            /\ UNCHANGED <<op, pmids, transport, response, result, log>>
       ELSE /\ EnterFetchPaperDetails(pmids)
            /\ UNCHANGED exit_code
    /\ UNCHANGED <<caller, xml_data, parsed_count, filtered_count,
                   calls, classifier_vars, filter_vars,
                   parser_vars, exporter_vars>>

\* main, step 3: parser.parse_papers(xml_data), which returns a Paper for
\* some of the article records, `if not papers: sys.exit(0)`; or an
\* unexpected error is raised inside the step, which `except Exception`
\* turns into sys.exit(1)
MainParse ==
    /\ caller = "main"
    /\ pc = "api_done"
    /\ op = "fetch_paper_details"
    /\ result.kind = "return"
    /\ log' = Append(log, "parse_papers")
    /\ \/ /\ result' = Raise("Exception")
          /\ pc' = "exited"
          /\ exit_code' = <<1>>
          /\ UNCHANGED parsed_count
       \/ /\ \E n \in 0..xml_data :
                /\ parsed_count' = n
                /\ IF n = 0
                   THEN pc' = "exited" /\ exit_code' = <<0>>
                   ELSE pc' = "main_filter" /\ UNCHANGED exit_code
          /\ UNCHANGED result
    /\ UNCHANGED <<caller, op, pmids, transport, response, xml_data,
                   filtered_count, calls, classifier_vars, filter_vars,
                   parser_vars, exporter_vars>>

\* main, step 4 without the test `if not filtered_papers`
MainFilterNoEmptyCheck ==
    /\ caller = "main"
    /\ pc = "main_filter"
    /\ log' = Append(log, "filter_papers_with_company_authors")
    /\ \E n \in 0..parsed_count : filtered_count' = n
    /\ pc' = "main_export"
    /\ UNCHANGED <<caller, op, pmids, transport, response, result, xml_data,
                   parsed_count, exit_code, calls, classifier_vars, filter_vars,
                   parser_vars, exporter_vars>>

\* main, step 4: filter_papers_with_company_authors(papers), which returns
\* some of the papers, `if not filtered_papers: sys.exit(0)`; or an
\* unexpected error is raised inside the step
MainFilter ==
    /\ caller = "main"
    /\ pc = "main_filter"
    /\ log' = Append(log, "filter_papers_with_company_authors")
    /\ \/ /\ result' = Raise("Exception")
          /\ pc' = "exited"
          /\ exit_code' = <<1>>
          /\ UNCHANGED filtered_count
       \/ /\ \E n \in 0..parsed_count :
                /\ filtered_count' = n
                /\ IF n = 0
                   THEN pc' = "exited" /\ exit_code' = <<0>>
                   ELSE pc' = "main_export" /\ UNCHANGED exit_code
          /\ UNCHANGED result
    /\ UNCHANGED <<caller, op, pmids, transport, response, xml_data,
                   parsed_count, calls, classifier_vars, filter_vars,
                   parser_vars, exporter_vars>>

\* main, step 5: exporter.export_papers(filtered_papers, filename), which
\* returns, or raises when the file cannot be opened or written
MainExport ==
    /\ caller = "main"
    /\ pc = "main_export"
    /\ log' = Append(log, "export_papers")
    /\ pc' = "exited"
    /\ \E raised \in BOOLEAN :
          IF raised
          THEN result' = Raise("Exception") /\ exit_code' = <<1>>
          ELSE result' = Return /\ exit_code' = <<0>>
    /\ UNCHANGED <<caller, op, pmids, transport, response, xml_data, parsed_count,
                   filtered_count, calls, classifier_vars, filter_vars,
                   parser_vars, exporter_vars>>

\* main with handlers that log the error and leave with exit code 0
MainExceptExitZero ==
    /\ caller = "main"
    /\ pc = "api_done"
    /\ result.kind = "raise"
    /\ pc' = "exited"
    /\ exit_code' = <<0>>
    /\ UNCHANGED <<caller, op, pmids, transport, response, result, xml_data, parsed_count,
                   filtered_count, log, calls, classifier_vars, filter_vars,
                   parser_vars, exporter_vars>>

\* main: `except PubMedAPIError` and `except Exception`, both sys.exit(1)
MainExcept ==
    /\ caller = "main"
    /\ pc = "api_done"
    /\ result.kind = "raise"
    /\ pc' = "exited"
    /\ exit_code' = <<1>>
    /\ UNCHANGED <<caller, op, pmids, transport, response, result, xml_data, parsed_count,
                   filtered_count, log, calls, classifier_vars, filter_vars,
                   parser_vars, exporter_vars>>

Next ==
    \/ TestCallSearchPapers
    \/ TestCallFetchPaperDetails
    \/ FetchCheck
    \/ RequestSleep
    \/ RequestGet
    \/ SearchParse
    \/ FetchParse
    \/ MainSearch
    \/ MainAfterSearch
    \/ MainParse
    \/ MainFilter
    \/ MainExport
    \/ MainExcept

Spec == PipelineInit /\ [][Next]_vars

(***************************************************************************)
(* Properties of the classifier                                            *)
(***************************************************************************)
\* text, lower-cased, contains one of the keywords
HasAny(keywords, text) ==
    LET lower == Lower(text) IN \E k \in keywords : Contains(lower, k)

\* the members of a list
Range(list) == { list[i] : i \in 1..Len(list) }

HasAcademicIndicator(text) == HasAny(Range(academic_indicators), text)

HasPharmaKeyword(text) == HasAny(pharma_keywords, text)

\* line 23 of the keyword table: the generic legal-entity markers
corporate_entity_keywords ==
    { <<"i","n","c",".">>,
      <<"c","o","r","p",".">>,
      <<"c","o","r","p","o","r","a","t","i","o","n">>,
      <<"l","t","d",".">>,
      <<"l","i","m","i","t","e","d">>,
      <<"c","o","m","p","a","n","y">>,
      <<"c","o",".">> }

\* lines 21-22 of the keyword table: the generic pharma/biotech terms
domain_keywords ==
    { <<"p","h","a","r","m","a","c","e","u","t","i","c","a","l","s">>,
      <<"p","h","a","r","m","a">>,
      <<"b","i","o","t","e","c","h">>,
      <<"b","i","o","t","e","c","h","n","o","l","o","g","y">>,
      <<"t","h","e","r","a","p","e","u","t","i","c">>,
      <<"t","h","e","r","a","p","e","u","t","i","c","s">>,
      <<"d","r","u","g"," ","d","e","v","e","l","o","p","m","e","n","t">>,
      <<"c","l","i","n","i","c","a","l"," ","r","e","s","e","a","r","c","h">> }

\* lines 14-20 of the keyword table: the named companies
named_companies == (pharma_keywords \ corporate_entity_keywords) \ domain_keywords

HasNamedCompany(text) == HasAny(named_companies, text)

HasDomainTerm(text) == HasAny(domain_keywords \cup Range(business_keywords), text)

HasLegalEntityMarker(text) ==
    HasAny(corporate_entity_keywords \cup Range(corporate_indicators), text)

\* C2: a non-empty affiliation that contains '.edu', 'university' or
\* 'college' in any letter case is never classified as a company, whatever
\* pharma keywords, named companies or corporate suffixes it also contains.
AcademicPrecedence ==
    (/\ is_company # << >>
     /\ affiliation # << >>
     /\ \/ Contains(Lower(affiliation), <<".","e","d","u">>)
        \/ Contains(Lower(affiliation), <<"u","n","i","v","e","r","s","i","t","y">>)
        \/ Contains(Lower(affiliation), <<"c","o","l","l","e","g","e">>))
    => is_company = <<FALSE>>

\* an upper-case UNIVERSITY beside a named company and the suffix 'llc'
AcademicPrecedenceWitness ==
    /\ is_company = <<FALSE>>
    /\ Contains(affiliation, <<"U","N","I","V","E","R","S","I","T","Y">>)
    /\ HasNamedCompany(affiliation)
    /\ Contains(Lower(affiliation), <<"l","l","c">>)

LegalMarkerAloneIsNoCompany ==
    (/\ is_company # << >>
     /\ ~HasAcademicIndicator(affiliation)
     /\ ~HasNamedCompany(affiliation)
     /\ ~HasDomainTerm(affiliation)
     /\ HasLegalEntityMarker(affiliation))
    => is_company = <<FALSE>>

\* the trailing legal-entity suffix of s removed once, and the rest trimmed
StripOneSuffix(s) ==
    IF \E i \in 1..Len(suffixes) : EndsWith(s, suffixes[i])
    THEN LET i == CHOOSE i \in 1..Len(suffixes) : EndsWith(s, suffixes[i])
         IN  Strip(DropLast(s, Len(suffixes[i])))
    ELSE s

EndsWithSuffix(s) == \E i \in 1..Len(suffixes) : EndsWith(s, suffixes[i])

IsPrefix(p, s) == Len(p) <= Len(s) /\ SubSeq(s, 1, Len(p)) = p

QualifiesByAffiliation(author) == is_company_affiliation(author.affiliation)

QualifiesByEmail(author) == Truthy(author.email) /\ is_corporate_email(author.email)

\* how often x occurs in list
Occurrences(x, list) == Cardinality({ k \in 1..Len(list) : list[k] = x })

\* the positions of the returned papers, and a returned paper's two lists
Returned == filter_result[1].filtered_papers

CompanyAuthorsOf(p) == filter_result[1].annotations[p][1].company_authors

CompanyAffiliationsOf(p) == filter_result[1].annotations[p][1].company_affiliations

\* C1: the filter returns, in input order, exactly the papers that have an
\* author with a company affiliation or with a non-empty corporate email;
\* every returned paper carries at least one company author.
FilterReturnsQualifyingPapers ==
    filter_result # << >> =>
        /\ \A k \in 1..Len(Returned) : Returned[k] \in 1..Len(papers)
        /\ \A k, l \in 1..Len(Returned) : k < l => Returned[k] < Returned[l]
        /\ \A p \in 1..Len(papers) :
              InList(p, Returned) =
                 (\E i \in 1..Len(papers[p].authors) :
                      \/ QualifiesByAffiliation(papers[p].authors[i])
                      \/ QualifiesByEmail(papers[p].authors[i]))
        /\ \A k \in 1..Len(Returned) :
              /\ filter_result[1].annotations[Returned[k]] # << >>
              /\ Len(CompanyAuthorsOf(Returned[k])) >= 1

\* of two papers the first is dropped and the second, whose only qualifying
\* author qualifies by email alone, is returned
FilterReturnsQualifyingPapersWitness ==
    /\ filter_result # << >>
    /\ Len(papers) = 2
    /\ Returned = <<2>>
    /\ Len(papers[1].authors) >= 1
    /\ \A i \in 1..Len(papers[2].authors) : ~QualifiesByAffiliation(papers[2].authors[i])

\* C5: (as claimed) the email branch skips an author only when that same
\* object is already listed: every author object that qualifies, by
\* affiliation or by corporate email, is listed exactly once, also when
\* another author of the paper has the same field values.
DedupByIdentity ==
    filter_result # << >> =>
        \A k \in 1..Len(Returned) :
            LET authors == papers[Returned[k]].authors
            IN  \A i \in 1..Len(authors) :
                    (QualifiesByAffiliation(authors[i]) \/ QualifiesByEmail(authors[i]))
                    => Occurrences(i, CompanyAuthorsOf(Returned[k])) = 1

\* C5: (amended) the email branch skips an author when an author with equal
\* field values is already listed: no author object is listed twice, and an
\* author is listed exactly when it has a company affiliation, or has a
\* corporate email and no earlier author of the paper equals it.
DedupByValue ==
    filter_result # << >> =>
        \A k \in 1..Len(Returned) :
            LET authors == papers[Returned[k]].authors
                listed  == CompanyAuthorsOf(Returned[k])
            IN  \A i \in 1..Len(authors) :
                    /\ Occurrences(i, listed) <= 1
                    /\ InList(i, listed) =
                          (\/ QualifiesByAffiliation(authors[i])
                           \/ /\ QualifiesByEmail(authors[i])
                              /\ ~\E j \in 1..(i - 1) : authors[j] = authors[i])

\* two authors with equal fields and a corporate email, no company
\* affiliation: the first is listed, the second is not
DedupByValueWitness ==
    /\ filter_result # << >>
    /\ \E k \in 1..Len(Returned) :
          LET authors == papers[Returned[k]].authors
              listed  == CompanyAuthorsOf(Returned[k])
          IN  \E i, j \in 1..Len(authors) :
                  /\ i < j
                  /\ authors[i] = authors[j]
                  /\ QualifiesByEmail(authors[i])
                  /\ ~QualifiesByAffiliation(authors[i])
                  /\ InList(i, listed)
                  /\ ~InList(j, listed)

\* the first author of the paper whose company affiliation yields name
FirstContributor(authors, name) ==
    CHOOSE i \in 1..Len(authors) :
        /\ QualifiesByAffiliation(authors[i])
        /\ extract_company_name(authors[i].affiliation) = name
        /\ \A j \in 1..(i - 1) :
              ~(/\ QualifiesByAffiliation(authors[j])
                /\ extract_company_name(authors[j].affiliation) = name)

\* C6: company_affiliations of a returned paper holds no string twice, holds
\* exactly the names extract_company_name yields (other than None) for the
\* authors with a company affiliation, in the order of their first
\* contributing author; an author who qualifies by email alone adds none.
CompanyAffiliationsRule ==
    filter_result # << >> =>
        \A k \in 1..Len(Returned) :
            LET authors == papers[Returned[k]].authors
                names   == CompanyAffiliationsOf(Returned[k])
            IN  /\ \A a, b \in 1..Len(names) : a # b => names[a] # names[b]
                /\ Range(names) =
                      { extract_company_name(authors[i].affiliation) :
                          i \in { i \in 1..Len(authors) : QualifiesByAffiliation(authors[i]) } }
                      \ { None }
                /\ \A a, b \in 1..Len(names) :
                      a < b => FirstContributor(authors, names[a])
                                 < FirstContributor(authors, names[b])

\* three company authors, two of them with the same extracted name: two names
CompanyAffiliationsRuleWitness ==
    /\ filter_result # << >>
    /\ \E k \in 1..Len(Returned) :
          /\ Len(CompanyAuthorsOf(Returned[k])) = 3
          /\ Len(CompanyAffiliationsOf(Returned[k])) = 2
          /\ \A i \in 1..3 : QualifiesByAffiliation(papers[Returned[k]].authors[i])

\* the text after the first '@' of an address that has one
TextAfterAt(s) == SubSeq(s, IndexOf(s, "@") + 1, Len(s))

\* C8: is_corporate_email(email) is false without an '@'; otherwise, with
\* domain the lower-cased text after '@', it is true when domain is in the
\* allow-list, else true exactly when domain ends with '.com' and contains
\* none of 'edu', 'ac.', 'univ'.
CorporateEmailRule ==
    is_corporate # << >> =>
        is_corporate[1] =
            (/\ Contains(email, <<"@">>)
             /\ LET domain == Lower(TextAfterAt(email))
                IN  \/ domain \in corporate_domains
                    \/ /\ EndsWith(domain, <<".","c","o","m">>)
                       /\ ~AnyIn(email_academic, domain))

(***************************************************************************)
(* Properties of the gateway and of main                                   *)
(***************************************************************************)
\* the call that ended had its transport fail or its response body not parse
CallFailed ==
    /\ pc = "api_done"
    /\ \/ transport \in TransportOutcomes \ {"ok"}
       \/ transport = "ok" /\ ~response[1].parsable

\* C9: when the outbound call of search_papers or fetch_paper_details fails,
\* by any exception of the transport call, a timeout or a non-success
\* status, or the body is not XML, the operation raises PubMedAPIError and
\* no other exception type.
GatewayFailsWithApiErrorOnly ==
    CallFailed => result = Raise("PubMedAPIError")

\* C10: fetch_paper_details with an empty identifier list raises ValueError,
\* not PubMedAPIError, before any rate-limit delay or request of that call;
\* main never calls fetch_paper_details with an empty list.
EmptyFetchIsInvalidArgument ==
    /\ (op = "fetch_paper_details" /\ pmids = << >> /\ pc # "fetch_check") =>
          /\ pc = "api_done"
          /\ result = Raise("ValueError")
          /\ transport = "none"
          /\ log[Len(log)] = "fetch_paper_details"
    /\ (caller = "main" /\ op = "fetch_paper_details") => pmids # << >>

\* a test's second call, after a search that went to the network, passes no
\* identifiers and gets ValueError
EmptyFetchIsInvalidArgumentWitness ==
    /\ caller = "test"
    /\ op = "fetch_paper_details"
    /\ pmids = << >>
    /\ pc = "api_done"
    /\ result = Raise("ValueError")
    /\ log = <<"search_papers", "sleep", "get", "fetch_paper_details">>

\* the entries of log that are calls of the client
CallMarkers == {"search_papers", "fetch_paper_details"}

\* C11: every call of search_papers or fetch_paper_details that reaches the
\* network performs the rate-limit delay and then exactly one request: a
\* request is always immediately preceded by the delay, the delay is the
\* first thing after the call is entered and is followed by the one request,
\* so a call never issues a second request, also after a failure.
RateLimitedSingleRequest ==
    \A k \in 1..Len(log) :
        /\ log[k] = "get" => (k > 1 /\ log[k - 1] = "sleep")
        /\ log[k] = "sleep" =>
              /\ k > 1
              /\ log[k - 1] \in CallMarkers
              /\ IF k = Len(log) THEN pc = "request_get" ELSE log[k + 1] = "get"

\* a request failed, the call ended with the error and made one request
RateLimitedSingleRequestWitness ==
    /\ pc = "api_done"
    /\ transport \in RequestExceptions
    /\ result = Raise("PubMedAPIError")
    /\ log = <<"search_papers", "sleep", "get", "fetch_paper_details", "sleep", "get">>

\* the stages of main, in the order of its source
Stages ==
    <<"search_papers", "fetch_paper_details", "parse_papers",
      "filter_papers_with_company_authors", "export_papers">>

\* the stages a run has called so far, in order
StagesRun == SelectSeq(log, LAMBDA entry : entry \notin {"sleep", "get"})

\* C12: in a run of main, an error raised at any stage ends the process
\* with exit code 1, and once it is raised no further stage, delay or
\* request happens.
ErrorExitsWithOne ==
    /\ [](caller = "main" /\ result.kind = "raise" /\ pc = "exited" => exit_code = <<1>>)
    /\ [][caller = "main" /\ result.kind = "raise" =>
              /\ log' = log
              /\ pc' = "exited"
              /\ exit_code' = <<1>>]_vars

\* the fetch of a run of main failed at the gateway: exit code 1 and no
\* parse, filter or export
ErrorExitsWithOneWitness ==
    /\ caller = "main"
    /\ pc = "exited"
    /\ exit_code = <<1>>
    /\ result = Raise("PubMedAPIError")
    /\ StagesRun = <<"search_papers", "fetch_paper_details">>

\* the stage called last returned an empty result
EmptyResult ==
    /\ StagesRun # << >>
    /\ result.kind = "return"
    /\ LET last == StagesRun[Len(StagesRun)]
       IN  \/ last = "search_papers" /\ pmids = << >>
           \/ last = "parse_papers" /\ parsed_count = 0
           \/ last = "filter_papers_with_company_authors" /\ filtered_count = 0

\* C13: in a run of main, an empty search, parse or filter result ends the
\* process with exit code 0 and no later stage is called; the stages are
\* called in the order search, fetch, parse, filter, export, each at most
\* once.
EmptyResultExitsWithZero ==
    /\ [](caller = "main" => IsPrefix(StagesRun, Stages))
    /\ [](caller = "main" /\ EmptyResult /\ pc # "api_done" =>
             pc = "exited" /\ exit_code = <<0>>)
    /\ [][caller = "main" /\ EmptyResult =>
              /\ log' = log
              /\ pc' = "exited"
              /\ exit_code' = <<0>>]_vars

\* the filter of a run of main returned no paper: exit code 0, no export
EmptyResultExitsWithZeroWitness ==
    /\ caller = "main"
    /\ pc = "exited"
    /\ exit_code = <<0>>
    /\ parsed_count > 0
    /\ filtered_count = 0
    /\ StagesRun = SubSeq(Stages, 1, 4)

(***************************************************************************)
(* Properties of the cleaned company name                                  *)
(***************************************************************************)
\* C18: a name returned by extract_company_name, when it is not None, is
\* not empty and ends with none of the legal-entity suffixes, also when the
\* first segment of the affiliation ends with several suffixes in a row.
NameHasNoLegalSuffix ==
    (company_name # << >> /\ company_name[1] # None) =>
        /\ company_name[1] # << >>
        /\ ~EndsWithSuffix(company_name[1])

(***************************************************************************)
(* Properties of the parser                                                *)
(***************************************************************************)
\* year, month and day of a date element after the defaults 1900, 01, 01,
\* the mapping of month names and the padding to two digits
NormalizedFields(date_elem) ==
    LET month == safe_find_text(date_elem.Month, <<"0","1">>)
    IN  [year |-> safe_find_text(date_elem.Year, <<"1","9","0","0">>),
         month |-> zfill2(IF month \in DOMAIN month_map THEN month_map[month] ELSE month),
         day |-> zfill2(safe_find_text(date_elem.Day, <<"0","1">>))]

AllDigits(text) == \A k \in 1..Len(text) : text[k] \in Digits

\* four digits of a year, two of a month and two of a day of that month
FormsCalendarDate(fields) ==
    /\ Len(fields.year) = 4 /\ AllDigits(fields.year)
    /\ Len(fields.month) = 2 /\ AllDigits(fields.month)
    /\ Len(fields.day) = 2 /\ AllDigits(fields.day)
    /\ ToInt(fields.year) >= 1
    /\ ToInt(fields.month) \in 1..12
    /\ ToInt(fields.day) \in 1..DaysInMonth(ToInt(fields.year), ToInt(fields.month))

\* text is YYYY-MM-DD and names a date of the calendar
IsCalendarDate(text) ==
    /\ Len(text) = 10
    /\ text[5] = "-"
    /\ text[8] = "-"
    /\ FormsCalendarDate([year |-> SubSeq(text, 1, 4),
                          month |-> SubSeq(text, 6, 7),
                          day |-> SubSeq(text, 9, 10)])

\* C14: parse_publication_date returns the date assembled from the first
\* of ArticleDate, PubDate, DateCompleted, DateRevised that is present and
\* whose year, month and day form a real calendar date, skipping the
\* candidates that do not, and 1900-01-01 when there is none; the result is
\* always a calendar date written YYYY-MM-DD.
PublicationDateRule ==
    publication_date # << >> =>
        LET dates == article_elem.dates
            real == { i \in 1..4 : /\ dates[i] # << >>
                                   /\ FormsCalendarDate(NormalizedFields(dates[i][1])) }
            expected ==
                IF real = {} THEN <<"1","9","0","0","-","0","1","-","0","1">>
                ELSE LET first == CHOOSE i \in real : \A j \in real : i <= j
                         fields == NormalizedFields(dates[first][1])
                     IN  FormatDate(fields.year, fields.month, fields.day)
        IN  /\ publication_date[1] = expected
            /\ IsCalendarDate(publication_date[1])

\* a record parse_papers makes a Paper of
Parsable(article) == Truthy(article.pmid) /\ Truthy(article.title) /\ ~article.raises

\* the results of parse_papers on each record alone, one after the other
RECURSIVE EachAlone(_)
EachAlone(articles) ==
    IF articles = << >> THEN << >>
    ELSE parse_papers(<<Head(articles)>>).papers \o EachAlone(Tail(articles))

\* C15: parse_papers returns, in the order of the records, one Paper for
\* each record that has a PMID text and a title and whose parsing raises
\* nothing; the other records are skipped, parse_papers does not fail, and
\* every Paper is the one its record yields when parsed alone.
RecordIsolation ==
    parse_result # << >> =>
        LET kept == SelectSeq(article_elems, Parsable)
        IN  /\ parse_result[1].kind = "return"
            /\ Len(parse_result[1].papers) = Len(kept)
            /\ \A k \in 1..Len(kept) :
                  /\ parse_result[1].papers[k].pmid = kept[k].pmid
                  /\ parse_result[1].papers[k].title = kept[k].title
            /\ parse_result[1].papers = EachAlone(article_elems)

\* a record without PMID, then one whose parsing raises, then a complete
\* one: the result is the Paper of the third
RecordIsolationWitness ==
    /\ parse_result # << >>
    /\ Len(article_elems) = 3
    /\ ~Truthy(article_elems[1].pmid)
    /\ Truthy(article_elems[2].pmid) /\ article_elems[2].raises
    /\ Parsable(article_elems[3])
    /\ Len(parse_result[1].papers) = 1
    /\ parse_result[1].papers[1].pmid = article_elems[3].pmid
    /\ Len(parse_result[1].papers[1].authors) = 2

(***************************************************************************)
(* Properties of the exporter                                              *)
(***************************************************************************)
\* the text export_papers has written to its output
OutputText == IF Truthy(filename) THEN disk[1] ELSE stdout_text

\* the names joined by "; "
RECURSIVE JoinedNames(_)
JoinedNames(names) ==
    IF Len(names) = 0 THEN << >>
    ELSE IF Len(names) = 1 THEN names[1]
    ELSE JoinedNames(SubSeq(names, 1, Len(names) - 1)) \o <<";"," ">> \o names[Len(names)]

\* the row of a paper: identifier, title, date, the full names of its
\* company authors, its company affiliations, its corresponding email or
\* the empty string
RowOf(paper) ==
    LET company_authors == IF paper.annotated THEN paper.company_authors ELSE << >>
        company_affiliations == IF paper.annotated THEN paper.company_affiliations ELSE << >>
    IN  << paper.pmid,
           paper.title,
           paper.publication_date,
           JoinedNames([k \in 1..Len(company_authors) |-> full_name(company_authors[k])]),
           JoinedNames(company_affiliations),
           IF paper.corresponding_author_email \in {None, << >>} THEN << >>
           ELSE paper.corresponding_author_email >>

\* C16: when export_papers returns for a non-empty list of papers, the
\* output starts with the header row, and read back as CSV it is the
\* header row followed by the row of each paper, in the order of the list.
ExportedRowsRule ==
    (export_pc = "done" /\ export_result = Return /\ out_papers # << >>) =>
        /\ IsPrefix(writerow(HEADERS), OutputText)
        /\ csv_reader(OutputText) =
               <<HEADERS>> \o [k \in 1..Len(out_papers) |-> RowOf(out_papers[k])]

\* two papers written to a file, a title with comma and quotes among them
ExportedRowsRuleWitness ==
    /\ export_pc = "done"
    /\ export_result = Return
    /\ Truthy(filename)
    /\ Len(out_papers) = 2
    /\ \E k \in 1..2 : \E j \in 1..Len(out_papers[k].title) :
           out_papers[k].title[j] = ","
    /\ Len(csv_reader(OutputText)) = 3

\* C17: export_papers called with no papers opens no file and writes
\* nothing, a file of the given name stays as it is; called with a filename
\* and papers, the file it opened is closed when the call ends, by return
\* or by an error; sys.stdout is never closed.
HandleLifecycle ==
    /\ [][out_papers = << >> => UNCHANGED <<disk, handle, stdout_text>>]_vars
    /\ [](out_papers = << >> => handle = "none")
    /\ [](export_pc = "done" => handle # "open")
    /\ [](handle # "none" => Truthy(filename) /\ out_papers # << >>)
    /\ [](~stdout_closed)

\* writing a row raised after the header was written to the file: the
\* call ended with the error and the file is closed
HandleLifecycleWitness ==
    /\ export_pc = "done"
    /\ export_result = Raise("OSError")
    /\ Truthy(filename)
    /\ handle = "closed"
    /\ disk = <<writerow(HEADERS)>>

====
